---- MODULE Spec2Model ----
(***************************************************************************)
(* Model of devel/libecl_queue/src/ext_job.c: the ext_job descriptor (a     *)
(* struct with setters) and ext_job_python_fprintf, which prints it as a    *)
(* Python literal.  Strings are TLA+ strings, so the printed record is the  *)
(* byte string the C code writes.                                           *)
(***************************************************************************)
EXTENDS Integers, Sequences, FiniteSets, TLC

VARIABLES
  ext_job,      \* the struct ext_job_struct
  pre_job,      \* the struct as it was when the most recent call began
  stream,       \* the FILE the most recent call was handed, as the call left it
  pre_stream,   \* when the two most recent calls both printed: the first one's FILE
  ret,          \* what the most recent call handed back to its caller
  last,         \* the most recent call: function name and arguments
  set_passed,   \* per optional field, the value last passed to its setter
  args_passed,  \* the arguments passed to ext_job_add_arg, in call order
  env_passed,   \* <<name, value>>: the value last passed for each name
  plat_passed   \* <<platform, exe>>: the exe last passed for each platform

vars == <<ext_job, pre_job, stream, pre_stream, ret, last, set_passed,
          args_passed, env_passed, plat_passed>>

-----------------------------------------------------------------------------
(* Bounds and input sets *)

\* A descriptor holds at most MaxFill things (optional fields set, arguments,
\* table entries), at most MaxArgs of them arguments.
MaxFill == 3
MaxArgs == 2

\* The number of fprintf calls a filling device accepts before it fails.
HalfWay == 9

Priorities == {0, 10}
Paths == {"/bin/eclipse", "eclipse.stdout"}
ArgVals == {"--version", ""}
EnvNames == {"F_UFMTENDIAN", "PATH"}
EnvVals == {"big", "little"}
Platforms == {"x86_64", "ia64"}
Exes == {"/local/eclipse.exe", "/bin/e"}

\* The keys of the six optional fields in the printed record.
OptionalFields ==
  {"portable_exe", "init_code", "target_file", "stdout", "stderr", "stdin"}

-----------------------------------------------------------------------------
(* C values *)

\* A char * is the empty tuple (NULL) or a one-element tuple holding the string.
NULL == <<>>
Ptr(s) == <<s>>

\* util.h: a fresh copy of a string.
util_alloc_string_copy(s) == s

\* util.h: the old buffer is resized and the new string copied into it.
util_realloc_string_copy(old, new) == Ptr(util_alloc_string_copy(new))

-----------------------------------------------------------------------------
(* hash.h: a string-keyed table owning its values.  The table is the        *)
(* sequence of its <<key, value>> entries in key-enumeration order.  Where  *)
(* a new key lands in that order is the table's business (the bucket it     *)
(* hashes to), so the position is an input of the insertion.                *)

hash_alloc == <<>>

hash_get_size(hash) == Len(hash)

hash_alloc_keylist(hash) == [i \in 1..Len(hash) |-> hash[i][1]]

hash_has_key(hash, key) == \E i \in 1..Len(hash) : hash[i][1] = key

hash_get(hash, key) == hash[CHOOSE i \in 1..Len(hash) : hash[i][1] = key][2]

hash_insert_hash_owned_ref(hash, key, value, slot) ==
  IF hash_has_key(hash, key)
    THEN [i \in 1..Len(hash) |->
            IF hash[i][1] = key THEN <<key, value>> ELSE hash[i]]
    ELSE LET at == IF slot > Len(hash) THEN Len(hash) ELSE slot
         IN  SubSeq(hash, 1, at) \o <<<<key, value>>>>
               \o SubSeq(hash, at + 1, Len(hash))

-----------------------------------------------------------------------------
(* stdio: a FILE is the bytes written so far, the error indicator and the   *)
(* number of fprintf calls the device still accepts (-1: no limit).  A call *)
(* the device refuses writes nothing and sets the error indicator.          *)

NoLimit == 0 - 1

\* The streams a caller hands over: a healthy one, and one whose device
\* fills up part-way through the record.
Rooms == {NoLimit, HalfWay}

\* What a call that takes no FILE leaves behind.
NoStream == [buf |-> "", err |-> FALSE, room |-> 0]

fopen(room) == [buf |-> "", err |-> FALSE, room |-> room]

\* texts[lo] ... texts[hi] joined.
RECURSIVE Concat(_, _, _)
Concat(texts, lo, hi) ==
  IF lo > hi THEN ""
  ELSE IF lo = hi THEN texts[lo]
  ELSE LET mid == (lo + hi) \div 2
       IN  Concat(texts, lo, mid) \o Concat(texts, mid + 1, hi)

\* fprintf called once for each text, in order, on the FILE f.
fprintf(f, texts) ==
  LET n == Len(texts)
      taken == IF f.room = NoLimit \/ f.room >= n THEN n ELSE f.room
  IN  [buf  |-> f.buf \o Concat(texts, 1, taken),
       err  |-> f.err \/ taken < n,
       room |-> IF f.room = NoLimit THEN NoLimit ELSE f.room - taken]

Q == "\""

-----------------------------------------------------------------------------
(* ext_job.c *)

\* ext_job_alloc with the target_file line left out: the field keeps
\* whatever the allocation held.
ext_job_alloc_stale_target(priority) ==
  [ priority     |-> priority,
    portable_exe |-> NULL,
    init_code    |-> NULL,
    stdout_file  |-> NULL,
    target_file  |-> Ptr(""),
    stdin_file   |-> NULL,
    stderr_file  |-> NULL,
    argv         |-> <<>>,
    argc         |-> 0,
    platform_exe |-> hash_alloc,
    environment  |-> hash_alloc ]

ext_job_alloc(priority) ==
  [ priority     |-> priority,
    portable_exe |-> NULL,
    init_code    |-> NULL,
    stdout_file  |-> NULL,
    target_file  |-> NULL,
    stdin_file   |-> NULL,
    stderr_file  |-> NULL,
    argv         |-> <<>>,
    argc         |-> 0,
    platform_exe |-> hash_alloc,
    environment  |-> hash_alloc ]

ext_job_set_portable_exe(job, portable_exe) ==
  [job EXCEPT !.portable_exe = util_realloc_string_copy(@, portable_exe)]

ext_job_set_init_code(job, init_code) ==
  [job EXCEPT !.init_code = util_realloc_string_copy(@, init_code)]

ext_job_set_stdout_file(job, stdout_file) ==
  [job EXCEPT !.stdout_file = util_realloc_string_copy(@, stdout_file)]

ext_job_set_target_file(job, target_file) ==
  [job EXCEPT !.target_file = util_realloc_string_copy(@, target_file)]

ext_job_set_stdin_file(job, stdin_file) ==
  [job EXCEPT !.stdin_file = util_realloc_string_copy(@, stdin_file)]

\* ext_job_set_stderr_file pasted from the stdin setter with the field
\* name left as it was.
ext_job_set_stderr_file_pasted(job, stderr_file) ==
  [job EXCEPT !.stdin_file = util_realloc_string_copy(@, stderr_file)]

ext_job_set_stderr_file(job, stderr_file) ==
  [job EXCEPT !.stderr_file = util_realloc_string_copy(@, stderr_file)]

ext_job_add_platform_exe(job, platform, exe, slot) ==
  [job EXCEPT !.platform_exe =
     hash_insert_hash_owned_ref(@, platform, util_alloc_string_copy(exe), slot)]

\* ext_job_add_environment that leaves a variable it already holds alone.
ext_job_add_environment_if_absent(job, platform, exe, slot) ==
  IF hash_has_key(job.environment, platform)
    THEN job
    ELSE [job EXCEPT !.environment =
            hash_insert_hash_owned_ref(@, platform,
                                       util_alloc_string_copy(exe), slot)]

\* ext_job_add_environment pasted from ext_job_add_platform_exe with the
\* table left as it was.
ext_job_add_environment_pasted(job, platform, exe, slot) ==
  [job EXCEPT !.platform_exe =
     hash_insert_hash_owned_ref(@, platform, util_alloc_string_copy(exe), slot)]

ext_job_add_environment(job, platform, exe, slot) ==
  [job EXCEPT !.environment =
     hash_insert_hash_owned_ref(@, platform, util_alloc_string_copy(exe), slot)]

\* ext_job_add_arg that stores the argument in the last slot already in
\* use (argv[argc - 1]) once there is one, so the newest argument replaces
\* its predecessor.
ext_job_add_arg_off_by_one(job, arg) ==
  [job EXCEPT !.argv = IF job.argc = 0
                         THEN <<util_alloc_string_copy(arg)>>
                         ELSE SubSeq(@, 1, job.argc - 1)
                                \o <<util_alloc_string_copy(arg), "">>,
              !.argc = @ + 1]

ext_job_add_arg(job, arg) ==
  [job EXCEPT !.argv = SubSeq(@, 1, job.argc) \o <<util_alloc_string_copy(arg)>>,
              !.argc = @ + 1]

\* The print helpers below all write to the one stream they are handed;
\* each is given here as the texts it passes to fprintf, call by call.

__fprintf_python_string(id, value) ==
  <<Q \o id \o Q \o " : ">>
    \o (IF value = NULL THEN <<"None">> ELSE <<Q \o value[1] \o Q>>)

RECURSIVE fprintf_list_loop(_, _, _)
fprintf_list_loop(list, size, i) ==
  IF i < size
    THEN <<Q \o list[i + 1] \o Q>>
           \o (IF i < size - 1 THEN <<",">> ELSE <<>>)
           \o fprintf_list_loop(list, size, i + 1)
    ELSE <<>>

__fprintf_python_list(id, list, size) ==
  <<Q \o id \o Q \o " : ", "[">>
    \o fprintf_list_loop(list, size, 0)
    \o <<"]">>

\* The entry loop with the separator test written i < size: a comma after
\* the last entry too.
RECURSIVE fprintf_hash_loop_trailing(_, _, _, _)
fprintf_hash_loop_trailing(hash, key_list, size, i) ==
  IF i < size
    THEN <<Q \o key_list[i + 1] \o Q \o ":" \o Q
             \o hash_get(hash, key_list[i + 1]) \o Q>>
           \o (IF i < size THEN <<",">> ELSE <<>>)
           \o fprintf_hash_loop_trailing(hash, key_list, size, i + 1)
    ELSE <<>>

RECURSIVE fprintf_hash_loop(_, _, _, _)
fprintf_hash_loop(hash, key_list, size, i) ==
  IF i < size
    THEN <<Q \o key_list[i + 1] \o Q \o ":" \o Q
             \o hash_get(hash, key_list[i + 1]) \o Q>>
           \o (IF i < size - 1 THEN <<",">> ELSE <<>>)
           \o fprintf_hash_loop(hash, key_list, size, i + 1)
    ELSE <<>>

__fprintf_python_hash(id, hash) ==
  LET size == hash_get_size(hash)
      key_list == hash_alloc_keylist(hash)
  IN  <<Q \o id \o Q \o " : ", "{">>
        \o fprintf_hash_loop(hash, key_list, size, 0)
        \o <<"}">>

\* __end_line without the comma.
__end_line_bare == <<"\n">>

__end_line == <<",\n">>

\* __indent with the loop test written i <= indent.
__indent_inclusive(indent) == [i \in 1..(indent + 1) |-> " "]

__indent(indent) == [i \in 1..indent |-> " "]

ext_job_python_fprintf(job, f) ==
  fprintf(f,
    <<" {">>
      \o __indent(0) \o __fprintf_python_string("portable_exe", job.portable_exe) \o __end_line
      \o __indent(2) \o __fprintf_python_string("init_code", job.init_code) \o __end_line
      \o __indent(2) \o __fprintf_python_string("target_file", job.target_file) \o __end_line
      \o __indent(2) \o __fprintf_python_string("stdout", job.stdout_file) \o __end_line
      \o __indent(2) \o __fprintf_python_string("stderr", job.stderr_file) \o __end_line
      \o __indent(2) \o __fprintf_python_string("stdin", job.stdin_file) \o __end_line
      \o __indent(2) \o __fprintf_python_list("argList", job.argv, job.argc) \o __end_line
      \o __indent(2) \o __fprintf_python_hash("environment", job.environment) \o __end_line
      \o __indent(2) \o __fprintf_python_hash("platform_exe", job.platform_exe)
      \o <<"}\n">>)

-----------------------------------------------------------------------------
(* The descriptor's lifetime: ext_job_alloc, then any calls in any order.   *)

Call(op, a) == [op |-> op, a |-> a]

IsSet(p) == IF p = NULL THEN 0 ELSE 1

Fill(job) ==
  IsSet(job.portable_exe) + IsSet(job.init_code) + IsSet(job.target_file)
    + IsSet(job.stdout_file) + IsSet(job.stderr_file) + IsSet(job.stdin_file)
    + job.argc + hash_get_size(job.environment)
    + hash_get_size(job.platform_exe)

Init ==
  /\ \E priority \in Priorities : ext_job = ext_job_alloc(priority)
  /\ pre_job = ext_job
  /\ stream = NoStream
  /\ pre_stream = NoStream
  /\ ret = "void"
  /\ last = Call("ext_job_alloc", <<>>)
  /\ set_passed = [f \in OptionalFields |-> NULL]
  /\ args_passed = <<>>
  /\ env_passed = {}
  /\ plat_passed = {}

\* What every call does to the bookkeeping; every function of the file
\* but ext_job_alloc returns void.
Called(op, a) ==
  /\ last' = Call(op, a)
  /\ ret' = "void"
  /\ pre_job' = ext_job

Setter(op, field, old, value, job) ==
  /\ old = NULL => Fill(ext_job) < MaxFill
  /\ Called(op, <<value>>)
  /\ ext_job' = job
  /\ stream' = NoStream
  /\ pre_stream' = NoStream
  /\ set_passed' = [set_passed EXCEPT ![field] = Ptr(value)]
  /\ UNCHANGED <<args_passed, env_passed, plat_passed>>

SetPortableExe ==
  \E v \in Paths :
    Setter("ext_job_set_portable_exe", "portable_exe", ext_job.portable_exe,
           v, ext_job_set_portable_exe(ext_job, v))

SetInitCode ==
  \E v \in Paths :
    Setter("ext_job_set_init_code", "init_code", ext_job.init_code,
           v, ext_job_set_init_code(ext_job, v))

SetStdoutFile ==
  \E v \in Paths :
    Setter("ext_job_set_stdout_file", "stdout", ext_job.stdout_file,
           v, ext_job_set_stdout_file(ext_job, v))

SetTargetFile ==
  \E v \in Paths :
    Setter("ext_job_set_target_file", "target_file", ext_job.target_file,
           v, ext_job_set_target_file(ext_job, v))

SetStdinFile ==
  \E v \in Paths :
    Setter("ext_job_set_stdin_file", "stdin", ext_job.stdin_file,
           v, ext_job_set_stdin_file(ext_job, v))

SetStderrFile ==
  \E v \in Paths :
    Setter("ext_job_set_stderr_file", "stderr", ext_job.stderr_file,
           v, ext_job_set_stderr_file(ext_job, v))

Put(passed, k, v) == {e \in passed : e[1] # k} \cup {<<k, v>>}

\* A new key lands in any slot of the enumeration order; a key the table
\* already holds keeps its slot.
Slots(hash, key) ==
  IF hash_has_key(hash, key) THEN {0} ELSE 0..hash_get_size(hash)

AddPlatformExe ==
  \E platform \in Platforms, exe \in Exes :
    \E slot \in Slots(ext_job.platform_exe, platform) :
      /\ ~hash_has_key(ext_job.platform_exe, platform)
           => Fill(ext_job) < MaxFill
      /\ Called("ext_job_add_platform_exe", <<platform, exe>>)
      /\ ext_job' = ext_job_add_platform_exe(ext_job, platform, exe, slot)
      /\ stream' = NoStream
  /\ pre_stream' = NoStream
      /\ plat_passed' = Put(plat_passed, platform, exe)
      /\ UNCHANGED <<set_passed, args_passed, env_passed>>

AddEnvironmentVar ==
  \E name \in EnvNames, value \in EnvVals :
    \E slot \in Slots(ext_job.environment, name) :
      /\ ~hash_has_key(ext_job.environment, name)
           => Fill(ext_job) < MaxFill
      /\ Called("ext_job_add_environment", <<name, value>>)
      /\ ext_job' = ext_job_add_environment(ext_job, name, value, slot)
      /\ stream' = NoStream
  /\ pre_stream' = NoStream
      /\ env_passed' = Put(env_passed, name, value)
      /\ UNCHANGED <<set_passed, args_passed, plat_passed>>

AddArgument ==
  \E arg \in ArgVals :
    /\ ext_job.argc < MaxArgs
    /\ Fill(ext_job) < MaxFill
    /\ Called("ext_job_add_arg", <<arg>>)
    /\ ext_job' = ext_job_add_arg(ext_job, arg)
    /\ stream' = NoStream
  /\ pre_stream' = NoStream
    /\ args_passed' = Append(args_passed, arg)
    /\ UNCHANGED <<set_passed, env_passed, plat_passed>>

\* ext_job_python_fprintf whose key lists are the tables' own keys, not
\* copies: util_free_string_list then empties both tables.
SerializeFreesKeys(rooms) ==
  \E room \in rooms :
    /\ Called("ext_job_python_fprintf", <<room>>)
    /\ stream' = ext_job_python_fprintf(ext_job, fopen(room))
    /\ pre_stream' = stream
    /\ ext_job' = [ext_job EXCEPT !.environment = hash_alloc,
                                  !.platform_exe = hash_alloc]
    /\ UNCHANGED <<set_passed, args_passed, env_passed, plat_passed>>

\* The caller opens a stream and hands it to ext_job_python_fprintf, which
\* takes the descriptor as const.
Serialize(rooms) ==
  \E room \in rooms :
    /\ Called("ext_job_python_fprintf", <<room>>)
    /\ stream' = ext_job_python_fprintf(ext_job, fopen(room))
    /\ pre_stream' = stream
    /\ UNCHANGED <<ext_job, set_passed, args_passed, env_passed, plat_passed>>

Mutate ==
  \/ SetPortableExe
  \/ SetInitCode
  \/ SetStdoutFile
  \/ SetTargetFile
  \/ SetStdinFile
  \/ SetStderrFile
  \/ AddPlatformExe
  \/ AddEnvironmentVar
  \/ AddArgument

\* Every stream the descriptor is printed to takes all it is sent.
Next == Mutate \/ Serialize({NoLimit})

Spec == Init /\ [][Next]_vars

\* The descriptor may also be printed to a stream that fails.
NextIO == Mutate \/ Serialize(Rooms)

SpecIO == Init /\ [][NextIO]_vars


-----------------------------------------------------------------------------
(* Reading a printed record back, byte by byte. *)

\* The positions at which pat occurs in s, in ascending order.
Hits(s, pat) ==
  LET At(i) == SubSeq(s, i, i + Len(pat) - 1) = pat
  IN  SelectSeq([i \in 1..(Len(s) - Len(pat) + 1) |-> i], At)

\* How often pat occurs in s.
Count(s, pat) == Len(Hits(s, pat))

\* The pieces of s between the occurrences of sep (which never overlap for
\* the separators used here).
Split(s, sep) ==
  LET at == Hits(s, sep)
      n == Len(at)
  IN  [k \in 1..(n + 1) |->
         SubSeq(s,
                IF k = 1 THEN 1 ELSE at[k - 1] + Len(sep),
                IF k = n + 1 THEN Len(s) ELSE at[k] - 1)]

StartsWith(s, pat) == SubSeq(s, 1, Len(pat)) = pat

EndsWith(s, pat) ==
  Len(s) >= Len(pat) /\ SubSeq(s, Len(s) - Len(pat) + 1, Len(s)) = pat

\* The nine keys of a record, in the order the format lists them.
Keys ==
  <<"portable_exe", "init_code", "target_file", "stdout", "stderr", "stdin",
    "argList", "environment", "platform_exe">>

Label(key) == Q \o key \o Q \o " : "

\* What a line of a record starts with: the opening brace on the first
\* line, two spaces on the others, then the label.
LineStart(i) == (IF i = 1 THEN " {" ELSE "  ") \o Label(Keys[i])

Lines(buf) == Split(buf, "\n")

\* The text of a field: what stands on the field's line between its label
\* and the character that ends the line.  A record without such a line
\* has no text for the field.
FieldText(lines, key) ==
  LET i == CHOOSE k \in 1..Len(Keys) : Keys[k] = key
  IN  IF i <= Len(lines) /\ StartsWith(lines[i], LineStart(i))
        THEN SubSeq(lines[i], Len(LineStart(i)) + 1, Len(lines[i]) - 1)
        ELSE "<no such field>"

\* The items between the brackets of a printed list or mapping.
Items(text) ==
  LET inner == SubSeq(text, 2, Len(text) - 1)
  IN  IF inner = "" THEN <<>> ELSE Split(inner, ",")

Unquote(item) == SubSeq(item, 2, Len(item) - 1)

Quoted(item) == Len(item) >= 2 /\ StartsWith(item, Q) /\ EndsWith(item, Q)

\* A printed list read back as the sequence of its strings.
ReadList(text) ==
  LET items == Items(text) IN [i \in 1..Len(items) |-> Unquote(items[i])]

\* A printed mapping read back as the sequence of its <<key, value>> entries.
ReadHash(text) ==
  LET items == Items(text)
  IN  [i \in 1..Len(items) |->
         LET kv == Split(items[i], Q \o ":" \o Q)
         IN  <<SubSeq(kv[1], 2, Len(kv[1])),
               SubSeq(kv[2], 1, Len(kv[2]) - 1)>>]

\* The most recent call printed the descriptor and every write went through.
Printed == last.op = "ext_job_python_fprintf" /\ ~stream.err

NoMutatorYet ==
  /\ \A f \in OptionalFields : set_passed[f] = NULL
  /\ args_passed = <<>>
  /\ env_passed = {}
  /\ plat_passed = {}

-----------------------------------------------------------------------------
(* Claims *)

\* C1: a descriptor printed straight after ext_job_alloc(p), before any
\* mutator is called, shows each of the six optional fields as None, argList
\* as [] and both environment and platform_exe as {}, whatever p is.
C1_FreshPrintsEmpty ==
  (Printed /\ NoMutatorYet) =>
    LET lines == Lines(stream.buf)
    IN  /\ \A f \in OptionalFields : FieldText(lines, f) = "None"
        /\ FieldText(lines, "argList") = "[]"
        /\ FieldText(lines, "environment") = "{}"
        /\ FieldText(lines, "platform_exe") = "{}"

C1_Witness ==
  Printed /\ NoMutatorYet /\ ext_job.priority = 10 /\ stream.buf # ""

\* C2: the printed argList holds exactly the arguments passed to
\* ext_job_add_arg, in call order and as many: duplicates and empty strings
\* are kept, whatever other mutators were called in between.
C2_ArgListIsCallOrder ==
  Printed =>
    LET text == FieldText(Lines(stream.buf), "argList")
        items == Items(text)
    IN  /\ StartsWith(text, "[") /\ EndsWith(text, "]")
        /\ \A i \in 1..Len(items) : Quoted(items[i])
        /\ ReadList(text) = args_passed

C2_Witness ==
  /\ Printed
  /\ args_passed = <<"", "">>
  /\ env_passed # {}

\* The struct member behind each optional key of the record.
MemberOf(key) ==
  CASE key = "portable_exe" -> "portable_exe"
    [] key = "init_code"    -> "init_code"
    [] key = "target_file"  -> "target_file"
    [] key = "stdout"       -> "stdout_file"
    [] key = "stderr"       -> "stderr_file"
    [] key = "stdin"        -> "stdin_file"

FieldOf(job, key) == job[MemberOf(key)]

SetterOf(key) ==
  CASE key = "portable_exe" -> "ext_job_set_portable_exe"
    [] key = "init_code"    -> "ext_job_set_init_code"
    [] key = "target_file"  -> "ext_job_set_target_file"
    [] key = "stdout"       -> "ext_job_set_stdout_file"
    [] key = "stderr"       -> "ext_job_set_stderr_file"
    [] key = "stdin"        -> "ext_job_set_stdin_file"

Entries(seq) == {seq[i] : i \in 1..Len(seq)}

\* A table, stored or read back from a record, holds exactly the entries
\* of passed, one per key.
LastValuePerKey(table, passed) ==
  /\ Entries(table) = passed
  /\ Len(table) = Cardinality(passed)
  /\ \A e \in passed :
       Cardinality({i \in 1..Len(table) : table[i][1] = e[1]}) = 1

\* C3: inserting a value under a key that already has one replaces it:
\* after any insertions environment holds one entry per distinct name, with
\* the value last passed for it, and prints as just those entries; the same
\* goes for platform_exe.
C3_InsertOrReplace ==
  /\ LastValuePerKey(ext_job.environment, env_passed)
  /\ LastValuePerKey(ext_job.platform_exe, plat_passed)
  /\ Printed =>
       LET lines == Lines(stream.buf)
       IN  /\ LastValuePerKey(ReadHash(FieldText(lines, "environment")),
                              env_passed)
           /\ LastValuePerKey(ReadHash(FieldText(lines, "platform_exe")),
                              plat_passed)

C3_Witness ==
  /\ last.op = "ext_job_add_environment"
  /\ hash_has_key(pre_job.environment, last.a[1])
  /\ hash_get(pre_job.environment, last.a[1]) # last.a[2]
  /\ hash_get(ext_job.environment, last.a[1]) = last.a[2]
  /\ hash_get_size(ext_job.environment) = 2

PrintedOptional(p) == IF p = NULL THEN "None" ELSE Q \o p[1] \o Q

\* C4: each optional field holds, and prints as, the value last passed to
\* its setter (None before the first call), and a setter called again with
\* the value the field already has leaves the descriptor as it was.
C4_LastWriteWins ==
  /\ \A f \in OptionalFields : FieldOf(ext_job, f) = set_passed[f]
  /\ Printed =>
       LET lines == Lines(stream.buf)
       IN  \A f \in OptionalFields :
             FieldText(lines, f) = PrintedOptional(set_passed[f])
  /\ \A f \in OptionalFields :
       (last.op = SetterOf(f) /\ FieldOf(pre_job, f) = Ptr(last.a[1]))
         => ext_job = pre_job

C4_Witness ==
  /\ last.op = "ext_job_set_stderr_file"
  /\ pre_job.stderr_file # NULL
  /\ pre_job.stderr_file # Ptr(last.a[1])
  /\ ext_job.stderr_file = Ptr(last.a[1])

C6_WriteErrorPropagated ==
  last.op = "ext_job_python_fprintf" =>
    (stream.err <=> ret = "WriteError")

\* C7: in a printed record each of the first seven fields is followed by a
\* comma and a newline; the last field, platform_exe, is followed by no
\* comma but by the closing brace and a newline.
C7_LineEnds ==
  Printed =>
    LET lines == Lines(stream.buf)
    IN  /\ Len(lines) = 10
        /\ lines[10] = ""
        /\ \A i \in 1..7 :
             /\ lines[i] = LineStart(i) \o FieldText(lines, Keys[i]) \o ","
             /\ ~EndsWith(lines[i], ",,")
        /\ lines[9] = LineStart(9) \o FieldText(lines, "platform_exe") \o "}"
        /\ EndsWith(lines[9], "}}")
        /\ ~EndsWith(lines[9], ",}}")

C7_Witness ==
  /\ Printed
  /\ hash_get_size(ext_job.platform_exe) = 2
  /\ ext_job.stdin_file # NULL

\* The descriptor of the end-to-end example and the record it must print.
ExampleJob ==
  ext_job_set_stdout_file(
    ext_job_add_platform_exe(
      ext_job_add_environment(
        ext_job_add_arg(
          ext_job_set_portable_exe(ext_job_alloc(10), "/bin/eclipse"),
          "--version"),
        "F_UFMTENDIAN", "big", 0),
      "x86_64", "/local/eclipse.exe", 0),
    "eclipse.stdout")

ExampleRecord ==
  " {\"portable_exe\" : \"/bin/eclipse\",\n"
    \o "  \"init_code\" : None,\n"
    \o "  \"target_file\" : None,\n"
    \o "  \"stdout\" : \"eclipse.stdout\",\n"
    \o "  \"stderr\" : None,\n"
    \o "  \"stdin\" : None,\n"
    \o "  \"argList\" : [\"--version\"],\n"
    \o "  \"environment\" : {\"F_UFMTENDIAN\":\"big\"},\n"
    \o "  \"platform_exe\" : {\"x86_64\":\"/local/eclipse.exe\"}}\n"

\* What ext_job_python_fprintf writes for the example's descriptor.
ExampleOutput == ext_job_python_fprintf(ExampleJob, fopen(NoLimit)).buf

\* C8: whatever calls built the descriptor, its record opens with " {" and
\* shows each of the nine keys once, in the order portable_exe, init_code,
\* target_file, stdout, stderr, stdin, argList, environment, platform_exe;
\* the first key follows the opening brace at once and every later key has
\* exactly two spaces before it; and the descriptor of the end-to-end
\* example prints as the record the specification gives.
C8_FixedLayout ==
  /\ Printed =>
       LET lines == Lines(stream.buf)
       IN  /\ StartsWith(stream.buf, " {")
           /\ Count(stream.buf, Q \o " : ") = Len(Keys)
           /\ Len(lines) = Len(Keys) + 1
           /\ StartsWith(lines[1], " {" \o Label(Keys[1]))
           /\ \A i \in 2..Len(Keys) :
                StartsWith(lines[i], "  " \o Label(Keys[i]))
  /\ ExampleOutput = ExampleRecord

C8_Witness ==
  /\ Printed
  /\ plat_passed # {}
  /\ args_passed # <<>>
  /\ set_passed["stdin"] # NULL

\* The commas of a printed collection of n elements: none when n = 0, else
\* n - 1 of them, none right after the opening bracket or right before the
\* closing one.
Separated(text, n, open, close) ==
  /\ StartsWith(text, open) /\ EndsWith(text, close)
  /\ n = 0 => text = open \o close
  /\ Count(text, ",") = (IF n = 0 THEN 0 ELSE n - 1)
  /\ ~StartsWith(text, open \o ",")
  /\ ~EndsWith(text, "," \o close)

\* A printed mapping shows one "key":"value" item per key of the table, in
\* key-list order, each with the value the table holds for that key.
ShowsTable(text, hash) ==
  LET items == Items(text)
      key_list == hash_alloc_keylist(hash)
  IN  /\ Separated(text, hash_get_size(hash), "{", "}")
      /\ Len(items) = hash_get_size(hash)
      /\ \A i \in 1..Len(items) :
           items[i] = Q \o key_list[i] \o Q \o ":" \o Q
                        \o hash_get(hash, key_list[i]) \o Q

\* C9: argList and each mapping print n >= 1 elements with n - 1 commas
\* between them, none leading and none trailing, and no elements as the bare
\* brackets; a mapping prints one "key":"value" item per key it holds, with
\* the value stored under that key.
C9_Separators ==
  Printed =>
    LET lines == Lines(stream.buf)
    IN  /\ Separated(FieldText(lines, "argList"), ext_job.argc, "[", "]")
        /\ Len(Items(FieldText(lines, "argList"))) = ext_job.argc
        /\ ShowsTable(FieldText(lines, "environment"), ext_job.environment)
        /\ ShowsTable(FieldText(lines, "platform_exe"), ext_job.platform_exe)

C9_Witness ==
  /\ Printed
  /\ hash_get_size(ext_job.environment) = 2
  /\ hash_get_size(ext_job.platform_exe) = 0
  /\ ext_job.argc = 1

\* Every member of the struct but those in touched is as it was before the
\* most recent call.
OnlyTouched(touched) ==
  \A m \in (DOMAIN ext_job) \ touched : ext_job[m] = pre_job[m]

\* C10: a mutator changes its own member only.  A setter changes its one
\* optional field; ext_job_add_environment changes environment only and
\* ext_job_add_platform_exe platform_exe only; ext_job_add_arg keeps the
\* earlier arguments, appends one and raises argc by 1; none changes
\* priority; so argc is always the number of ext_job_add_arg calls made.
C10_Frame ==
  /\ ext_job.priority = pre_job.priority
  /\ ext_job.argc = Len(args_passed)
  /\ Len(ext_job.argv) = ext_job.argc
  /\ \A f \in OptionalFields :
       last.op = SetterOf(f) => OnlyTouched({MemberOf(f)})
  /\ last.op = "ext_job_add_environment" => OnlyTouched({"environment"})
  /\ last.op = "ext_job_add_platform_exe" => OnlyTouched({"platform_exe"})
  /\ last.op = "ext_job_add_arg" =>
       /\ OnlyTouched({"argv", "argc"})
       /\ ext_job.argc = pre_job.argc + 1
       /\ SubSeq(ext_job.argv, 1, pre_job.argc) = pre_job.argv
       /\ ext_job.argv[ext_job.argc] = last.a[1]

C10_Witness ==
  /\ last.op = "ext_job_add_environment"
  /\ hash_get_size(ext_job.platform_exe) = 1
  /\ ext_job.argc = 1
  /\ hash_get_size(ext_job.environment) = 1

====
